---------------------------- MODULE Spec2Model ----------------------------
(***************************************************************************)
(* Model of the auditable dark pool core: the RLWE audit encryption engine *)
(* and its public-key cache (demo-frontend/app/lib/rlwe.ts), the threshold *)
(* decryption engine (src/unnamed/part_001), the shielded pool Merkle      *)
(* tree, the initialization of its hash and the identity keypairs          *)
(* (src/unnamed/part_003), and the deposits store                          *)
(* (demo-frontend/app/lib/storage.ts).                                     *)
(*                                                                         *)
(* Arrays are functions over 0..len-1, as in the source.  The numeric      *)
(* parameters of the source (N = 1024, q = 167772161, t = 256, the BN254   *)
(* prime, TREE_DEPTH = 16) are far outside what can be enumerated, so the  *)
(* model runs the same code at reduced parameters that keep their          *)
(* relations: q is a prime with q = 1 (mod t), DELTA = q / t is much       *)
(* larger than the accumulated noise, the field prime exceeds q.           *)
(***************************************************************************)
EXTENDS Integers, Sequences, FiniteSets, TLC

\* Ring dimension (rlwe.ts:6, part_001:5 have 1024).
N == 5
\* Ciphertext modulus (rlwe.ts:7 has 167772161 = 5*2^25 + 1; here 3*2^12 + 1).
RLWE_Q == 12289
\* Plaintext modulus: the radix of one message slot (rlwe.ts:8 has 256).
PLAINTEXT_MOD == 4
\* Bits of one message slot: 8 in the source ("i * 8", "0xFF"), log2 of PLAINTEXT_MOD.
SLOT_BITS == 2
\* Slots one field element is split into (rlwe.ts:165 has 32).
FIELD_SLOTS == 2
\* Message slots: two packed field elements (rlwe.ts:10 has 64 = 2 * 32).
MSG_SLOTS == 4
\* Scalar field prime (part_001:10 has the 254-bit BN254 prime; here 5*2^13 + 1).
BN254_P == 40961
\* Noise bound of smallNoise (rlwe.ts:154).
NOISE_MOD == 7

DELTA == RLWE_Q \div PLAINTEXT_MOD

Idx(n) == 0 .. (n - 1)

RECURSIVE Pow2(_)
Pow2(k) == IF k = 0 THEN 1 ELSE 2 * Pow2(k - 1)

-----------------------------------------------------------------------------
(* BigInt arithmetic of the source: % and / truncate toward zero.          *)

JsRem(x, m) == IF x >= 0 THEN x % m ELSE -((-x) % m)

JsDiv(x, m) == IF x >= 0 THEN x \div m ELSE -((-x) \div m)

\* The reduction with the "+ q" left out: v % q alone.
mod_truncated(v, q) == JsRem(v, q)

\* ((v % q) + q) % q
mod(v, q) == JsRem(JsRem(v, q) + q, q)

\* A numeral of an artifact ("0x1f", "31"): its radix and its digits, the
\* most significant first.
RECURSIVE Numeral(_, _)
Numeral(v, radix) ==
    IF v < radix THEN [radix |-> radix, digits |-> <<v>>]
    ELSE [radix |-> radix,
          digits |-> Append(Numeral(v \div radix, radix).digits, v % radix)]

RECURSIVE parseDigits(_, _, _, _)
parseDigits(digits, radix, i, acc) ==
    IF i > Len(digits) THEN acc
    ELSE parseDigits(digits, radix, i + 1, acc * radix + digits[i])

\* A decimal numeral with its sign ("-31").
SignedNumeral(v) ==
    [radix |-> 10, digits |-> Numeral(IF v < 0 THEN -v ELSE v, 10).digits, neg |-> v < 0]

\* BigInt(text) on a numeral, negative when the text has a minus sign.
BigInt(text) ==
    IF "neg" \in DOMAIN text /\ text.neg
    THEN -parseDigits(text.digits, text.radix, 1, 0)
    ELSE parseDigits(text.digits, text.radix, 1, 0)

-----------------------------------------------------------------------------
(* Field and ring arithmetic                                               *)

ZeroRing(n) == [i \in Idx(n) |-> 0]

\* One (i, j) iteration of the double loop, k = i * n + j; zero
\* coefficients are skipped by "continue".
RECURSIVE mulModQLoop(_, _, _, _, _, _)
mulModQLoop(a, b, n, q, k, result) ==
    IF k = n * n THEN result
    ELSE LET i == k \div n
             j == k % n
             idx == i + j
             prod == a[i] * b[j]
         IN  IF a[i] = 0 \/ b[j] = 0
             THEN mulModQLoop(a, b, n, q, k + 1, result)
             ELSE IF idx < n
             THEN mulModQLoop(a, b, n, q, k + 1,
                     [result EXCEPT ![idx] = JsRem(JsRem(result[idx] + prod, q) + q, q)])
             ELSE mulModQLoop(a, b, n, q, k + 1,
                     [result EXCEPT ![idx - n] = JsRem(JsRem(result[idx - n] - prod, q) + q, q)])

\* The plausible slip: "break" for the inner "continue".
RECURSIVE mulModQLoopBreak(_, _, _, _, _, _)
mulModQLoopBreak(a, b, n, q, k, result) ==
    IF k = n * n THEN result
    ELSE LET i == k \div n
             j == k % n
             idx == i + j
             prod == a[i] * b[j]
         IN  IF a[i] = 0
             THEN mulModQLoopBreak(a, b, n, q, k + 1, result)
             ELSE IF b[j] = 0
             THEN mulModQLoopBreak(a, b, n, q, (i + 1) * n, result)
             ELSE IF idx < n
             THEN mulModQLoopBreak(a, b, n, q, k + 1,
                     [result EXCEPT ![idx] = JsRem(JsRem(result[idx] + prod, q) + q, q)])
             ELSE mulModQLoopBreak(a, b, n, q, k + 1,
                     [result EXCEPT ![idx - n] = JsRem(JsRem(result[idx - n] - prod, q) + q, q)])

negacyclicMulModQ_break(a, b, n, q) == mulModQLoopBreak(a, b, n, q, 0, ZeroRing(n))

\* rlwe.ts negacyclicMulModQ
negacyclicMulModQ(a, b, n, q) == mulModQLoop(a, b, n, q, 0, ZeroRing(n))

\* Row k with the fold's sign dropped: poly[k - j + n] for -poly[k - j + n].
negacyclicMatrixRowModQ_nosign(poly, k, n, q) ==
    [j \in Idx(n) |->
        LET idx == k - j
        IN  IF idx >= 0
            THEN JsRem(JsRem(poly[idx], q) + q, q)
            ELSE JsRem(JsRem(poly[idx + n], q) + q, q)]

negacyclicMatrixRowModQ(poly, k, n, q) ==
    [j \in Idx(n) |->
        LET idx == k - j
        IN  IF idx >= 0
            THEN JsRem(JsRem(poly[idx], q) + q, q)
            ELSE JsRem(JsRem(-poly[idx + n], q) + q, q)]

RECURSIVE innerProductLoop(_, _, _, _, _)
innerProductLoop(row, r, len, i, sum) ==
    IF i = len THEN sum
    ELSE innerProductLoop(row, r, len, i + 1, sum + row[i] * r[i])

\* Inner product over the integers; row.length is the row's domain size.
innerProductInt(row, r) ==
    innerProductLoop(row, r, Cardinality(DOMAIN row), 0, 0)

-----------------------------------------------------------------------------
(* Merkle tree (ShieldedPoolMerkleTree)                                    *)

\* Depth of the tree (part_003:20 has 16).
TREE_DEPTH == 2
\* Inserts the model allows beyond the 2^TREE_DEPTH leaves of a full tree.
ExtraInserts == 1
\* Commitments handed to insert; 0 is also the value of an empty leaf.
Commitments == {0, 1}

\* Poseidon is an external, deterministic, collision-resistant hash: a free
\* constructor.  A field element that is no hash output is the 1-tuple Fe(v),
\* so that leaves and hash outputs are values of one kind.
Fe(v) == <<v>>

poseidonHash2(left, right) == <<left, right>>

length(arr) == Cardinality(DOMAIN arr)

push(arr, v) == [i \in Idx(length(arr) + 1) |-> IF i < length(arr) THEN arr[i] ELSE v]

EmptyArray == [i \in {} |-> 0]

\* arr[j] ?? dflt
OrElse(arr, j, dflt) == IF j \in DOMAIN arr THEN arr[j] ELSE dflt

\* The ladder built by the constructor: defaultHashes[0] = 0n,
\* defaultHashes[i] = hash(prev, prev).
RECURSIVE defaultHashes(_)
defaultHashes(i) ==
    IF i = 0 THEN Fe(0)
    ELSE poseidonHash2(defaultHashes(i - 1), defaultHashes(i - 1))

\* [...this.leaves]
LeafLevel(lvs) == [j \in DOMAIN lvs |-> Fe(lvs[j])]

\* The inner loop of getRoot and getProof: j = 0, 2, ... below 2^(TREE_DEPTH - i).
NextLevel(currentLevel, i) ==
    [m \in Idx(Pow2(TREE_DEPTH - i) \div 2) |->
        poseidonHash2(OrElse(currentLevel, 2 * m, defaultHashes(i)),
                      OrElse(currentLevel, 2 * m + 1, defaultHashes(i)))]

RECURSIVE getRootLoop(_, _)
getRootLoop(currentLevel, i) ==
    IF i = TREE_DEPTH THEN currentLevel
    ELSE getRootLoop(NextLevel(currentLevel, i), i + 1)

getRoot(lvs) == getRootLoop(LeafLevel(lvs), 0)[0]

\* The recursion with the right child taken at index * 2 as well.
RECURSIVE calculateRootAtLevel_leftOnly(_, _, _)
calculateRootAtLevel_leftOnly(lvs, level, index) ==
    IF level = 0 THEN OrElse(LeafLevel(lvs), index, Fe(0))
    ELSE poseidonHash2(calculateRootAtLevel_leftOnly(lvs, level - 1, index * 2),
                       calculateRootAtLevel_leftOnly(lvs, level - 1, index * 2))

RECURSIVE calculateRootAtLevel(_, _, _)
calculateRootAtLevel(lvs, level, index) ==
    IF level = 0 THEN OrElse(LeafLevel(lvs), index, Fe(0))
    ELSE poseidonHash2(calculateRootAtLevel(lvs, level - 1, index * 2),
                       calculateRootAtLevel(lvs, level - 1, index * 2 + 1))

getRootOptimized_leftOnly(lvs) == calculateRootAtLevel_leftOnly(lvs, TREE_DEPTH, 0)

getRootOptimized(lvs) == calculateRootAtLevel(lvs, TREE_DEPTH, 0)

RECURSIVE getProofLoop(_, _, _, _)
getProofLoop(currentLevel, currentIdx, i, proof) ==
    IF i = TREE_DEPTH THEN proof
    ELSE LET isRight == currentIdx % 2 = 1
             siblingIdx == IF isRight THEN currentIdx - 1 ELSE currentIdx + 1
             sibling == OrElse(currentLevel, siblingIdx, defaultHashes(i))
         IN  getProofLoop(NextLevel(currentLevel, i), currentIdx \div 2, i + 1,
                          push(proof, sibling))

getProof(lvs, index) == getProofLoop(LeafLevel(lvs), index, 0, EmptyArray)

-----------------------------------------------------------------------------
(* Threshold decryption engine: Shamir reconstruction and RLWE decryption  *)

RECURSIVE modPowLoop(_, _, _, _)
modPowLoop(result, base, exp, m) ==
    IF exp > 0
    THEN modPowLoop(IF exp % 2 = 1 THEN (result * base) % m ELSE result,
                    (base * base) % m, exp \div 2, m)
    ELSE result

modPow(base, exp, m) == modPowLoop(1, JsRem(JsRem(base, m) + m, m), exp, m)

\* A thrown error, and a returned value.
Throw(name) == [ok |-> FALSE, err |-> name]
Return(v) == [ok |-> TRUE, val |-> v]

\* shares.slice(0, threshold): the pairs at the indexes below threshold.
slice(shares, threshold) == [i \in {k \in DOMAIN shares : k < threshold} |-> shares[i]]

\* The inner loop over j for term i: num picks up -x_j / (x_i - x_j).
RECURSIVE lagrangeTerm(_, _, _, _, _)
lagrangeTerm(xs, num, i, j, threshold) ==
    IF j = threshold THEN num
    ELSE IF i = j THEN lagrangeTerm(xs, num, i, j + 1, threshold)
    ELSE LET num1 == JsRem(num * (JsRem(-xs[j], BN254_P) + BN254_P), BN254_P)
             inv == modPow(JsRem(JsRem(xs[i] - xs[j], BN254_P) + BN254_P, BN254_P),
                           BN254_P - 2, BN254_P)
         IN  lagrangeTerm(xs, JsRem(num1 * inv, BN254_P), i, j + 1, threshold)

\* The same with the numerator taken from x_i.
RECURSIVE lagrangeTerm_ownX(_, _, _, _, _)
lagrangeTerm_ownX(xs, num, i, j, threshold) ==
    IF j = threshold THEN num
    ELSE IF i = j THEN lagrangeTerm_ownX(xs, num, i, j + 1, threshold)
    ELSE LET num1 == JsRem(num * (JsRem(-xs[i], BN254_P) + BN254_P), BN254_P)
             inv == modPow(JsRem(JsRem(xs[i] - xs[j], BN254_P) + BN254_P, BN254_P),
                           BN254_P - 2, BN254_P)
         IN  lagrangeTerm_ownX(xs, JsRem(num1 * inv, BN254_P), i, j + 1, threshold)

RECURSIVE shamirLoop(_, _, _, _, _)
shamirLoop(xs, ys, secret, i, threshold) ==
    IF i = threshold THEN secret
    ELSE shamirLoop(xs, ys,
                    JsRem(secret + lagrangeTerm(xs, ys[i], i, 0, threshold), BN254_P),
                    i + 1, threshold)

RECURSIVE shamirLoop_ownX(_, _, _, _, _)
shamirLoop_ownX(xs, ys, secret, i, threshold) ==
    IF i = threshold THEN secret
    ELSE shamirLoop_ownX(xs, ys,
                    JsRem(secret + lagrangeTerm_ownX(xs, ys[i], i, 0, threshold), BN254_P),
                    i + 1, threshold)

shamirReconstructField_ownX(shares, threshold) ==
    LET sl == slice(shares, threshold)
        xs == [i \in DOMAIN sl |-> sl[i][0]]
        ys == [i \in DOMAIN sl |-> sl[i][1]]
    IN  IF threshold > length(shares)
        THEN Throw("TypeError")
        ELSE Return(shamirLoop_ownX(xs, ys, 0, 0, threshold))

\* Lagrange interpolation at x = 0.  With threshold above shares.length the
\* first pass reads xs[threshold - 1], which is undefined: -undefined is NaN,
\* and NaN % BN254_P throws a TypeError (BigInt mixed with a number).
shamirReconstructField(shares, threshold) ==
    LET sl == slice(shares, threshold)
        xs == [i \in DOMAIN sl |-> sl[i][0]]
        ys == [i \in DOMAIN sl |-> sl[i][1]]
    IN  IF threshold > length(shares)
        THEN Throw("TypeError")
        ELSE Return(shamirLoop(xs, ys, 0, 0, threshold))

centeredMod(v, q) ==
    LET w == JsRem(JsRem(v, q) + q, q)
    IN  IF w > JsDiv(q, 2) THEN w - q ELSE w

\* The pair [x, BigInt(y)] of one coefficient of a share file.
Pair(c) == [i \in Idx(2) |-> IF i = 0 THEN c.x ELSE BigInt(c.y)]

\* The value pushed for ring position coeffIdx.
skCoefficient(share1Data, share2Data, coeffIdx) ==
    LET s1 == Pair(share1Data.coefficients[coeffIdx])
        s2 == Pair(share2Data.coefficients[coeffIdx])
        val == shamirReconstructField([i \in Idx(2) |-> IF i = 0 THEN s1 ELSE s2],
                                      share1Data.threshold)
    IN  IF val.ok
        THEN Return(JsRem(JsRem(centeredMod(val.val, BN254_P), RLWE_Q) + RLWE_Q, RLWE_Q))
        ELSE val

\* reconstructSk: the ring, or the error the first failing position throws.
reconstructSk(share1Data, share2Data) ==
    LET co == [coeffIdx \in Idx(N) |-> skCoefficient(share1Data, share2Data, coeffIdx)]
    IN  IF \E k \in Idx(N) : ~co[k].ok
        THEN co[CHOOSE k \in Idx(N) : ~co[k].ok /\ \A m \in Idx(k) : co[m].ok]
        ELSE Return([k \in Idx(N) |-> co[k].val])

\* The copy of negacyclicMulModQ in the decryption module.
RECURSIVE decMulModQLoop(_, _, _, _, _, _)
decMulModQLoop(a, b, n, q, k, result) ==
    IF k = n * n THEN result
    ELSE LET i == k \div n
             j == k % n
             idx == i + j
             prod == a[i] * b[j]
         IN  IF a[i] = 0 \/ b[j] = 0
             THEN decMulModQLoop(a, b, n, q, k + 1, result)
             ELSE IF idx < n
             THEN decMulModQLoop(a, b, n, q, k + 1,
                     [result EXCEPT ![idx] = JsRem(JsRem(result[idx] + prod, q) + q, q)])
             ELSE decMulModQLoop(a, b, n, q, k + 1,
                     [result EXCEPT ![idx - n] = JsRem(JsRem(result[idx - n] - prod, q) + q, q)])

decNegacyclicMulModQ(a, b, n, q) == decMulModQLoop(a, b, n, q, 0, ZeroRing(n))

\* ownerX += BigInt(msgRecovered[from + i] & 0xff) << BigInt(i * 8), i below 32
RECURSIVE reassemble(_, _, _, _)
reassemble(msgRecovered, from, i, acc) ==
    IF i = FIELD_SLOTS THEN acc
    ELSE reassemble(msgRecovered, from, i + 1,
                    acc + (msgRecovered[from + i] % PLAINTEXT_MOD) * Pow2(i * SLOT_BITS))

\* One recovered slot: round(noisy / DELTA) mod t.
recoverSlot(c0i, skC1i) ==
    LET noisy == JsRem(c0i + skC1i, RLWE_Q)
        noisyCentered == centeredMod(noisy, RLWE_Q)
        val == JsRem(JsDiv(JsDiv(noisyCentered * 10, DELTA)
                            + (IF noisyCentered >= 0 THEN 5 ELSE -5), 10),
                     PLAINTEXT_MOD)
    IN  JsRem(JsRem(val, PLAINTEXT_MOD) + PLAINTEXT_MOD, PLAINTEXT_MOD)

\* Rounding by truncation alone: the +5 / -5 left out.
recoverSlot_truncating(c0i, skC1i) ==
    LET noisy == JsRem(c0i + skC1i, RLWE_Q)
        noisyCentered == centeredMod(noisy, RLWE_Q)
        val == JsRem(JsDiv(JsDiv(noisyCentered * 10, DELTA), 10), PLAINTEXT_MOD)
    IN  JsRem(JsRem(val, PLAINTEXT_MOD) + PLAINTEXT_MOD, PLAINTEXT_MOD)

rlweDecrypt_truncating(c0Sparse, c1, skModQ) ==
    LET skC1 == decNegacyclicMulModQ(skModQ, c1, N, RLWE_Q)
        msgRecovered == [i \in Idx(MSG_SLOTS) |-> recoverSlot_truncating(c0Sparse[i], skC1[i])]
    IN  [ownerX |-> reassemble(msgRecovered, 0, 0, 0),
         ownerY |-> reassemble(msgRecovered, FIELD_SLOTS, 0, 0)]

rlweDecrypt(c0Sparse, c1, skModQ) ==
    LET skC1 == decNegacyclicMulModQ(skModQ, c1, N, RLWE_Q)
        msgRecovered == [i \in Idx(MSG_SLOTS) |-> recoverSlot(c0Sparse[i], skC1[i])]
    IN  [ownerX |-> reassemble(msgRecovered, 0, 0, 0),
         ownerY |-> reassemble(msgRecovered, FIELD_SLOTS, 0, 0)]

-----------------------------------------------------------------------------
(* RLWE audit encryption engine                                            *)

\* slots[i] = (value >> (i * 8)) & 0xFF: on BigInt, >> is the floor of the
\* division by the power of two and & 0xFF the non-negative residue.
encodeFieldToBytes(value, numBytes) ==
    [i \in Idx(numBytes) |-> (value \div Pow2(i * SLOT_BITS)) % PLAINTEXT_MOD]

\* smallNoise, on the byte crypto.getRandomValues returned.
smallNoise(byte) == (byte % NOISE_MOD) - 3

\* The accumulation ip = ((ip + row[j] * rModQ[j]) % q + q) % q over j.
RECURSIVE ipModQLoop(_, _, _, _)
ipModQLoop(row, rModQ, j, ip) ==
    IF j = N THEN ip
    ELSE ipModQLoop(row, rModQ, j + 1,
                    JsRem(JsRem(ip + row[j] * rModQ[j], RLWE_Q) + RLWE_Q, RLWE_Q))

\* The message of rlweEncrypt: owner_x then owner_y, FIELD_SLOTS slots each.
encodeMessage(ownerX, ownerY) ==
    LET slotsX == encodeFieldToBytes(ownerX, FIELD_SLOTS)
        slotsY == encodeFieldToBytes(ownerY, FIELD_SLOTS)
    IN  [i \in Idx(MSG_SLOTS) |->
            IF i < FIELD_SLOTS THEN slotsX[i]
            ELSE IF i < 2 * FIELD_SLOTS THEN slotsY[i - FIELD_SLOTS] ELSE 0]

\* rlweEncrypt with e1 left out of c0.
rlweEncrypt_noE1(pk, ownerX, ownerY, rSigned, e1Signed, e2Signed) ==
    LET msg == encodeMessage(ownerX, ownerY)
        rModQ == [i \in Idx(N) |-> mod(rSigned[i], RLWE_Q)]
        e2ModQ == [i \in Idx(N) |-> mod(e2Signed[i], RLWE_Q)]
    IN  [c0Sparse |-> [i \in Idx(MSG_SLOTS) |->
                        mod(ipModQLoop(negacyclicMatrixRowModQ(pk.b, i, N, RLWE_Q), rModQ, 0, 0)
                            + DELTA * msg[i], RLWE_Q)],
         c1 |-> [i \in Idx(N) |->
                        mod(ipModQLoop(negacyclicMatrixRowModQ(pk.a, i, N, RLWE_Q), rModQ, 0, 0)
                            + e2ModQ[i], RLWE_Q)],
         rSigned |-> rSigned, e1Signed |-> e1Signed, e2Signed |-> e2Signed,
         msg |-> msg]

\* rlweEncrypt on the loaded key pk and the sampled noise.
rlweEncrypt(pk, ownerX, ownerY, rSigned, e1Signed, e2Signed) ==
    LET msg == encodeMessage(ownerX, ownerY)
        rModQ == [i \in Idx(N) |-> mod(rSigned[i], RLWE_Q)]
        e1ModQ == [i \in Idx(MSG_SLOTS) |-> mod(e1Signed[i], RLWE_Q)]
        e2ModQ == [i \in Idx(N) |-> mod(e2Signed[i], RLWE_Q)]
    IN  [c0Sparse |-> [i \in Idx(MSG_SLOTS) |->
                        mod(ipModQLoop(negacyclicMatrixRowModQ(pk.b, i, N, RLWE_Q), rModQ, 0, 0)
                            + e1ModQ[i] + DELTA * msg[i], RLWE_Q)],
         c1 |-> [i \in Idx(N) |->
                        mod(ipModQLoop(negacyclicMatrixRowModQ(pk.a, i, N, RLWE_Q), rModQ, 0, 0)
                            + e2ModQ[i], RLWE_Q)],
         rSigned |-> rSigned, e1Signed |-> e1Signed, e2Signed |-> e2Signed,
         msg |-> msg]

\* The integer full0[i] and full1[i] of computeQuotients.
fullVal0(pk, rSigned, e1Signed, msg, i) ==
    innerProductInt(negacyclicMatrixRowModQ(pk.b, i, N, RLWE_Q), rSigned)
        + e1Signed[i] + DELTA * msg[i]

fullVal1(pk, rSigned, e2Signed, i) ==
    innerProductInt(negacyclicMatrixRowModQ(pk.a, i, N, RLWE_Q), rSigned) + e2Signed[i]

\* computeQuotients: the BigInt division truncates; no remainder is looked at.
computeQuotients(pk, c0Sparse, c1, rSigned, e1Signed, e2Signed, msg) ==
    [k0 |-> [i \in Idx(MSG_SLOTS) |->
                JsDiv(fullVal0(pk, rSigned, e1Signed, msg, i) - c0Sparse[i], RLWE_Q)],
     k1 |-> [i \in Idx(N) |->
                JsDiv(fullVal1(pk, rSigned, e2Signed, i) - c1[i], RLWE_Q)]]

-----------------------------------------------------------------------------
(* The public-key cache of the encryption module                           *)

\* cachedPk before its first assignment.
Null == [null |-> TRUE]

\* BigInt(text) throws a SyntaxError on text that is no numeral: here, a
\* digit outside the radix.
isNumeral(text) == \A i \in DOMAIN text.digits : text.digits[i] < text.radix

\* (arr as string[]).map((h) => BigInt(h)): the array of the values, or the
\* error of the first element that is no numeral.  The array has the length
\* of arr, whatever it is.
mapBigInt(arr) ==
    IF \E i \in DOMAIN arr : ~isNumeral(arr[i])
    THEN Throw("SyntaxError")
    ELSE Return([i \in DOMAIN arr |-> BigInt(arr[i])])

\* Lines 27-31 with the cache left half-assigned when b fails to decode:
\* cachedPk = { a: ... } first, cachedPk.b = ... after.
loadRlwePkResume_eager(cache, data) ==
    LET a == mapBigInt(data.a)
        b == mapBigInt(data.b)
    IN  IF ~a.ok THEN [cachedPk |-> cache, ret |-> a]
        ELSE IF ~b.ok THEN [cachedPk |-> [a |-> a.val], ret |-> b]
        ELSE [cachedPk |-> [a |-> a.val, b |-> b.val],
              ret |-> Return([a |-> a.val, b |-> b.val])]

\* Lines 27-31 returning the decoded key with a fresh read of data.b for a.
loadRlwePkResume_fresh(cache, data) ==
    LET a == mapBigInt(data.a)
        b == mapBigInt(data.b)
    IN  IF ~a.ok THEN [cachedPk |-> cache, ret |-> a]
        ELSE IF ~b.ok THEN [cachedPk |-> cache, ret |-> b]
        ELSE [cachedPk |-> [a |-> a.val, b |-> b.val],
              ret |-> Return([a |-> b.val, b |-> b.val])]

\* loadRlwePk from line 27 on, data being what res.json() gave: the object
\* literal is evaluated (a, then b) before the one assignment to cachedPk,
\* and the cache is what is returned.  Nothing looks at the lengths.
loadRlwePkResume(cache, data) ==
    LET a == mapBigInt(data.a)
        b == mapBigInt(data.b)
    IN  IF ~a.ok THEN [cachedPk |-> cache, ret |-> a]
        ELSE IF ~b.ok THEN [cachedPk |-> cache, ret |-> b]
        ELSE [cachedPk |-> [a |-> a.val, b |-> b.val],
              ret |-> Return([a |-> a.val, b |-> b.val])]

\* rlweEncrypt after "await loadRlwePk()": the rows of b and then of a read
\* every index below N, and a missing coefficient is undefined, which throws
\* a TypeError when it meets a BigInt; coefficients from N on are never read.
rlweEncryptLoaded(pk, ownerX, ownerY, rSigned, e1Signed, e2Signed) ==
    IF length(pk.b) < N \/ length(pk.a) < N
    THEN Throw("TypeError")
    ELSE Return(rlweEncrypt(pk, ownerX, ownerY, rSigned, e1Signed, e2Signed))

-----------------------------------------------------------------------------
(* Identity keypairs on the embedded curve                                 *)

\* Bits of a secret key: MAX_128_BIT + 1n is 2^SK_BITS (part_003:91 has 128).
SK_BITS == 3
\* Order of the curve's group, a prime above 2^SK_BITS (part_003:48).
BABYJUBJUB_N == 11

\* The point k * G of the curve, named by k mod the group order, and its
\* affine coordinates.
Point(k) == [dlog |-> k % BABYJUBJUB_N]
AffineX(pt) == <<"x", pt.dlog>>
AffineY(pt) == <<"y", pt.dlog>>

\* BASE.multiply(sc) of the curve library.  A scalar in [1, n) gives sc * G.
\* The library checks the scalar's range and throws on any other; rejects
\* says whether it does, so that nothing rests on that check.
multiply(sc, rejects) ==
    IF sc >= 1 /\ sc < BABYJUBJUB_N THEN Return(Point(sc))
    ELSE IF rejects THEN Throw("Error")
    ELSE Return(Point(sc))

\* generateIdentityKeypair: sk = secretKey % (MAX_128_BIT + 1n), a BigInt
\* remainder with the sign of secretKey.
generateIdentityKeypair(secretKey, rejects) ==
    LET sk == JsRem(secretKey, Pow2(SK_BITS))
        pk == multiply(sk, rejects)
    IN  IF ~pk.ok THEN pk
        ELSE Return([secretKey |-> sk,
                     publicKey |-> [x |-> AffineX(pk.val), y |-> AffineY(pk.val)]])

-----------------------------------------------------------------------------
(* The deposits object store (IndexedDB, keyPath "id")                     *)

\* db.put("deposits", record): the record replaces the one of its id or is
\* added.
put(store, record) ==
    [id \in DOMAIN store \cup {record.id} |-> IF id = record.id THEN record ELSE store[id]]

\* db.delete("deposits", id)
delete(store, id) == [k \in DOMAIN store \ {id} |-> store[k]]

\* db.get("deposits", id): the record, or undefined.
Undefined == [undefined |-> TRUE]
get(store, id) == IF id \in DOMAIN store THEN store[id] ELSE Undefined

\* The record createDepositRecord makes: status "pending", no withdrawal
\* signature.
DepositRecord(id) == [id |-> id, status |-> "pending", withdrawTxSignature |-> "unset"]

\* Lines 170-173: the record read, with the status set and the signature
\* set when one is given.
updated(deposit, status, sig) ==
    [deposit EXCEPT !.status = status,
                    !.withdrawTxSignature = IF sig # "" THEN sig ELSE @]

-----------------------------------------------------------------------------
(* Initialization of the hash (initPoseidon, getPoseidon)                  *)

\* What buildPoseidon() resolves to for the call that awaited it: every
\* resolution is an instance of its own, all computing the same function.
Instance(call) == [build |-> call]

\* The test of initPoseidon with the condition left out.
initPoseidonBuilds_always(instance) == TRUE

\* if (!poseidonInstance)
initPoseidonBuilds(instance) == instance = Null

NotInitialized == Throw("Poseidon not initialized")

getPoseidon(instance) == IF instance = Null THEN NotInitialized ELSE Return(instance)

poseidonHash3(v1, v2, v3) == <<v1, v2, v3>>

poseidonHash4(v1, v2, v3, v4) == <<v1, v2, v3, v4>>

calculateWaCommitment(publicKey) == poseidonHash2(publicKey.x, publicKey.y)

calculateCommitment(publicKey, amount, randomness) ==
    poseidonHash4(publicKey.x, publicKey.y, amount, randomness)

calculateNullifier(secretKey, leafIndex) == poseidonHash2(secretKey, leafIndex)

\* A function whose first statement is getPoseidon(): the throw passes
\* through it, otherwise it returns the value it computes with the instance.
withPoseidon(instance, val) ==
    IF getPoseidon(instance).ok THEN Return(val) ELSE getPoseidon(instance)

\* new ShieldedPoolMerkleTree(): the loop hashes when TREE_DEPTH >= 1, and
\* the throw leaves no object behind; otherwise leaves = [].
construct(instance) ==
    IF TREE_DEPTH >= 1 THEN withPoseidon(instance, EmptyArray) ELSE Return(EmptyArray)

-----------------------------------------------------------------------------
(* Tree operations on the instance state                                   *)

\* insert returning what Array.push returns, the new length.
insert_newLength(lvs, commitment) ==
    [leaves |-> push(lvs, commitment), index |-> length(lvs) + 1]

\* insert: the leaves after the call and the index returned.
insert(lvs, commitment) ==
    [leaves |-> push(lvs, commitment), index |-> length(lvs)]

-----------------------------------------------------------------------------
(* Inputs                                                                  *)

\* Share holders of the 2-of-n sharing.
NumShares == 3
\* The threshold field a share file may carry; 2 is the dealer's.
Thresholds == 0 .. 3

\* Signed secret rings and key noise, and uniform rings, of dimension N.
SignedS1 == [i \in Idx(N) |-> (i % 3) - 1]
SignedS2 == [i \in Idx(N) |-> 1]
SignedE1 == [i \in Idx(N) |-> ((5 * i + 1) % NOISE_MOD) - 3]
SignedE2 == [i \in Idx(N) |-> 3]
UniformA1 == [i \in Idx(N) |-> (1237 * i * i + 4321 * i + 77) % RLWE_Q]
UniformA2 == [i \in Idx(N) |-> (RLWE_Q - 1 - 911 * i) % RLWE_Q]

\* An honestly generated key: b = -(a * sk) + e in the ring, which is what
\* makes c0 + sk * c1 = DELTA * msg + (small noise) in rlweDecrypt.
\* The artifact holds a and b as numerals of the given radix.
KeyGen(a, s, e, radix) ==
    LET sk == [i \in Idx(N) |-> mod(s[i], RLWE_Q)]
        as == negacyclicMulModQ(a, sk, N, RLWE_Q)
    IN  [a |-> [i \in Idx(N) |-> Numeral(a[i], radix)],
         b |-> [i \in Idx(N) |-> Numeral(mod(e[i] - as[i], RLWE_Q), radix)],
         sk |-> sk]

KeyPairs == {KeyGen(UniformA1, SignedS1, SignedE1, 16),
             KeyGen(UniformA2, SignedS2, SignedE2, 10)}

\* The dealer of the sharing: one degree-1 polynomial secret + slope * x per
\* ring position over the scalar field, holder h evaluating it at x = h.
DealShares(secret, slopes, threshold) ==
    [h \in 1 .. NumShares |->
        [share_index |-> h, threshold |-> threshold, num_shares |-> NumShares,
         coefficients |-> [k \in Idx(N) |->
            [x |-> h,
             y |-> Numeral((mod(secret[k], BN254_P) + slopes[k] * h) % BN254_P, 16)]]]]

SecretRings == {SignedS1, SignedS2}
SlopeRings == [Idx(N) -> {1, BN254_P - 1}]
                \cup {ZeroRing(N), [i \in Idx(N) |-> (7919 * i + 12345) % BN254_P]}

\* Random bytes behind the noise: the two extremes in every position, the
\* all-zero noise, and one mixed sample.
ExtremeBytes(n) == [Idx(n) -> {0, 6}]
PatternBytes(n) == {[i \in Idx(n) |-> 0], [i \in Idx(n) |-> 6], [i \in Idx(n) |-> 3],
                    [i \in Idx(n) |-> 255 - i]}
OwnerXs == {0, 6, 15}
OwnerYs == {9, 15}

RingAs == [Idx(N) -> {0, RLWE_Q - 1}] \cup {UniformA1, UniformA2}
RingBs == [Idx(N) -> {0, RLWE_Q - 2}] \cup {UniformA2, [i \in Idx(N) |-> 1]}

\* loadRlwePk calls made, concurrently or one after another.
NumCalls == 3

\* What the store can serve at the key's URL: the JSON artifact of a key,
\* one with a coefficient missing in a, one with a coefficient too many in
\* b, one with text in b that is no numeral, and a body that is no JSON.
PkArtifact(key) == [json |-> TRUE, a |-> key.a, b |-> key.b]
Pk1 == PkArtifact(KeyGen(UniformA1, SignedS1, SignedE1, 16))
Pk2 == PkArtifact(KeyGen(UniformA2, SignedS2, SignedE2, 10))
ShortA == [Pk1 EXCEPT !.a = [i \in Idx(N - 1) |-> Pk1.a[i]]]
LongB == [Pk1 EXCEPT !.b = push(Pk1.b, Numeral(1, 16))]
BadB == [Pk1 EXCEPT !.b[N - 1] = [radix |-> 10, digits |-> <<1, 10>>]]
Html == [json |-> FALSE, a |-> EmptyArray, b |-> EmptyArray]
Artifacts == {Pk1, ShortA, LongB, BadB, Html}
\* What the store can replace the artifact with: a repaired or a rotated key.
Republished == {Pk1, Pk2}

\* The width in bits of one encoded field element (32 bytes in the source).
FieldBits == FIELD_SLOTS * SLOT_BITS
\* Values handed to the encoding: the range that fits, a stretch of
\* negative values below it and a stretch of too wide values above it.
EncodeValues == (-Pow2(FieldBits)) .. (2 * Pow2(FieldBits))
OtherOwners == {0, 9, Pow2(FieldBits) - 1}

\* Seeds of identity keypairs: negative ones, zero, and positive ones up to
\* several times the secret key's range.
Seeds == (-2 * Pow2(SK_BITS)) .. (5 * Pow2(SK_BITS))

\* Ring elements whose coefficients are not reduced: negative ones, Q
\* itself, multiples of Q + 1, and values above the scalar field's prime.
UnreducedAs ==
    {[i \in Idx(N) |-> IF i < 2 THEN f[i] ELSE (i - 2) * (RLWE_Q + 1)] :
        f \in [Idx(2) -> {-1, 0, RLWE_Q}]}
UnreducedBs ==
    {[i \in Idx(N) |-> IF i < 2 THEN f[i] ELSE 3 - 2 * i] :
        f \in [Idx(2) -> {-(RLWE_Q + 1), 0, BN254_P + 5}]}

\* A share file whose values are the given integers, as decimal text.
ShareOf(values, x, threshold) ==
    [share_index |-> x, threshold |-> threshold, num_shares |-> NumShares,
     coefficients |-> [k \in Idx(N) |-> [x |-> x, y |-> SignedNumeral(values[k])]]]

\* Deposit ids (the commitment in hex), and updateDepositStatus calls that
\* may be in flight together.
DepositIds == {"0x01", "0x02"}
NumUpdates == 2
\* The withdrawTxSignature argument: left out (falsy) or given.
Signatures == {"", "sig"}

-----------------------------------------------------------------------------
(* State                                                                   *)

VARIABLES
    leaves,      \* ShieldedPoolMerkleTree.leaves
    treeRet,     \* what the last call on the tree returned
    polyA,       \* the ring elements the ring operations are applied to
    polyB,
    ringRet,     \* what the last ring operation returned
    shareFiles,  \* the share files of the holders
    secretRing,  \* the signed secret ring the dealer shared
    skRet,       \* what the last reconstructSk call returned
    keyPair,     \* the public-key artifact (a, b) and its secret ring sk
    ct,          \* the last rlweEncrypt call: its arguments and its result
    rlweRet,     \* what the last computeQuotients or rlweDecrypt call returned
    cachedPk,    \* the module variable cachedPk of the encryption module
    artifact,    \* what the store serves at /rlwe/rlwe_pk.json
    calls,       \* the loadRlwePk calls: position, caller, response, result
    fetches,     \* retrievals issued so far
    assigns,     \* assignments to cachedPk so far
    published,   \* whether the store has replaced the artifact
    encArgs,     \* the value handed to the encoding and the other owner coordinate
    encRet,      \* what the encoding returned
    idSeed,      \* the seed handed to generateIdentityKeypair
    idRet,       \* what generateIdentityKeypair returned
    deposits,    \* the object store "deposits", keyed by id
    merkleTree,  \* the object store "merkleTree": whether it holds the state record
    updates,     \* the updateDepositStatus calls: position, arguments, the record read
    clearPc,     \* where the clearAllData call is
    removed,     \* ids deleted or cleared with no save or import since
    poseidonInstance, \* the module variable poseidonInstance of the commitment module
    inits,       \* the initPoseidon calls: position, whether made after one had completed
    hashRet,     \* what the last call that reaches for the hash returned
    tree         \* whether a ShieldedPoolMerkleTree has been constructed

treeVars == <<leaves, treeRet>>
ringVars == <<polyA, polyB, ringRet>>
shamirVars == <<shareFiles, secretRing, skRet>>
rlweVars == <<keyPair, ct, rlweRet>>
cacheVars == <<cachedPk, artifact, calls, fetches, assigns, published>>
encodeVars == <<encArgs, encRet>>
identityVars == <<idSeed, idRet>>
storeVars == <<deposits, merkleTree, updates, clearPc, removed>>
hashVars == <<poseidonInstance, inits, hashRet, tree>>
vars == <<leaves, treeRet, polyA, polyB, ringRet, shareFiles, secretRing, skRet,
          keyPair, ct, rlweRet, cachedPk, artifact, calls, fetches, assigns,
          published,
          encArgs, encRet,
          idSeed, idRet,
          deposits, merkleTree, updates, clearPc, removed,
          poseidonInstance, inits, hashRet, tree>>

NoRet == [op |-> "none"]

TreeInit == leaves = EmptyArray /\ treeRet = NoRet
RingIdle == polyA = ZeroRing(N) /\ polyB = ZeroRing(N) /\ ringRet = NoRet
ShamirIdle ==
    /\ secretRing = ZeroRing(N)
    /\ shareFiles = DealShares(ZeroRing(N), ZeroRing(N), 2)
    /\ skRet = NoRet
RlweIdle ==
    /\ keyPair = KeyGen(ZeroRing(N), ZeroRing(N), ZeroRing(N), 16)
    /\ ct = NoRet
    /\ rlweRet = NoRet

EncodeIdle == encArgs = [value |-> 0, other |-> 0] /\ encRet = NoRet

IdentityIdle == idSeed = 0 /\ idRet = NoRet

\* An updateDepositStatus call not yet made.
IdleUpdate == [pc |-> "idle", id |-> "none", status |-> "none", sig |-> "", deposit |-> NoRet]
StoreIdle ==
    /\ deposits = EmptyArray
    /\ merkleTree = FALSE
    /\ updates = [u \in 1 .. NumUpdates |-> IdleUpdate]
    /\ clearPc = "idle"
    /\ removed = [id \in DepositIds |-> FALSE]

\* A loadRlwePk call not yet made.
IdleCall == [pc |-> "idle", caller |-> "none", res |-> NoRet, pk |-> NoRet, out |-> NoRet]
CacheIdle ==
    /\ cachedPk = Null
    /\ artifact = Pk1
    /\ calls = [c \in 1 .. NumCalls |-> IdleCall]
    /\ fetches = 0
    /\ assigns = 0
    /\ published = FALSE

\* An initPoseidon call not yet made.
IdleInit == [pc |-> "idle", late |-> FALSE]
\* No initPoseidon call has been made.
HashIdle ==
    /\ poseidonInstance = Null
    /\ inits = [c \in 1 .. NumCalls |-> IdleInit]
    /\ hashRet = NoRet
    /\ tree = FALSE
\* The first initPoseidon call has completed and the tree has been constructed.
HashReady ==
    /\ poseidonInstance = Instance(1)
    /\ inits = [c \in 1 .. NumCalls |-> IF c = 1 THEN [pc |-> "done", late |-> FALSE]
                                                 ELSE IdleInit]
    /\ hashRet = NoRet
    /\ tree = TRUE

-----------------------------------------------------------------------------
(* The Merkle tree                                                         *)

Insert(commitment) ==
    /\ length(leaves) < Pow2(TREE_DEPTH) + ExtraInserts
    /\ leaves' = insert(leaves, commitment).leaves
    /\ treeRet' = [op |-> "insert", arg |-> commitment,
                   val |-> insert(leaves, commitment).index]
    /\ UNCHANGED <<ringVars, shamirVars, rlweVars, cacheVars, encodeVars, identityVars, storeVars, hashVars>>

GetRoot ==
    /\ treeRet' = [op |-> "getRoot", val |-> getRoot(leaves)]
    /\ UNCHANGED <<leaves, ringVars, shamirVars, rlweVars, cacheVars, encodeVars, identityVars, storeVars, hashVars>>

GetRootOptimized ==
    /\ treeRet' = [op |-> "getRootOptimized", val |-> getRootOptimized(leaves)]
    /\ UNCHANGED <<leaves, ringVars, shamirVars, rlweVars, cacheVars, encodeVars, identityVars, storeVars, hashVars>>

GetProof(index) ==
    /\ treeRet' = [op |-> "getProof", arg |-> index, val |-> getProof(leaves, index)]
    /\ UNCHANGED <<leaves, ringVars, shamirVars, rlweVars, cacheVars, encodeVars, identityVars, storeVars, hashVars>>

TreeNext ==
    \/ \E commitment \in Commitments : Insert(commitment)
    \/ GetRoot
    \/ GetRootOptimized
    \/ \E index \in DOMAIN leaves : GetProof(index)

InitTree ==
    /\ TreeInit /\ RingIdle /\ ShamirIdle /\ RlweIdle /\ CacheIdle /\ EncodeIdle
    /\ IdentityIdle /\ StoreIdle /\ HashReady

SpecTree == InitTree /\ [][TreeNext]_vars

\* The verifier's fold of a proof: from the leaf up, the sibling on the left
\* when the current index is odd and on the right when it is even.
RECURSIVE FoldProof(_, _, _, _)
FoldProof(node, proof, idx, i) ==
    IF i = length(proof) THEN node
    ELSE FoldProof(IF idx % 2 = 1 THEN poseidonHash2(proof[i], node)
                                  ELSE poseidonHash2(node, proof[i]),
                   proof, idx \div 2, i + 1)

\* C4: whatever leaves the inserts have left, the value getRoot returns is
\* the value getRootOptimized computes on the same leaves, and the value
\* getRootOptimized returns is the one getRoot computes.
C4_RootsAgree ==
    /\ treeRet.op = "getRoot" => treeRet.val = getRootOptimized(leaves)
    /\ treeRet.op = "getRootOptimized" => treeRet.val = getRoot(leaves)

\* C4 witness: getRootOptimized has answered on a partial tree holding a
\* nonzero leaf in a right-hand position.
C4_Witness ==
    /\ treeRet.op = "getRootOptimized"
    /\ length(leaves) = 2
    /\ leaves[1] = 1

\* C5 (as claimed): the proof of every inserted leaf has TREE_DEPTH siblings
\* and folds with the leaf to the root getRoot returns.
C5_ProofRecombines ==
    treeRet.op = "getProof" =>
        /\ length(treeRet.val) = TREE_DEPTH
        /\ FoldProof(Fe(leaves[treeRet.arg]), treeRet.val, treeRet.arg, 0) = getRoot(leaves)

\* C6: a step that changes the leaves is an insert that returns the leaf
\* count before the call, adds exactly one leaf, stores the commitment at
\* the returned index and keeps every earlier leaf; an insert always does
\* so; no other step changes the leaves.
C6_AppendOnly ==
    [][ /\ \A j \in DOMAIN leaves : j \in DOMAIN leaves' /\ leaves'[j] = leaves[j]
        /\ (leaves' # leaves \/ (treeRet'.op = "insert" /\ treeRet' # treeRet)) =>
              /\ treeRet'.op = "insert"
              /\ treeRet'.val = length(leaves)
              /\ length(leaves') = length(leaves) + 1
              /\ leaves'[treeRet'.val] = treeRet'.arg ]_vars

\* C6 witness: a second insert has returned index 1 with the first leaf kept.
C6_Witness ==
    /\ treeRet.op = "insert"
    /\ treeRet.val = 1
    /\ length(leaves) = 2
    /\ leaves[0] # leaves[1]

\* C7 (as claimed): the tree never holds more than 2^TREE_DEPTH leaves and
\* insert never returns an index outside the tree.
C7_CapacityBound ==
    /\ length(leaves) <= Pow2(TREE_DEPTH)
    /\ treeRet.op = "insert" => treeRet.val < Pow2(TREE_DEPTH)

-----------------------------------------------------------------------------
(* The ring operations, each applied once to the drawn ring elements       *)

RingInit == polyA \in RingAs /\ polyB \in RingBs /\ ringRet = NoRet

\* negacyclicMulModQ(x, y, N, Q) of the encryption module, in either order.
CallMulModQ(order) ==
    /\ ringRet = NoRet
    /\ ringRet' = [op |-> "mul", order |-> order,
                   val |-> IF order = "ab"
                           THEN negacyclicMulModQ(polyA, polyB, N, RLWE_Q)
                           ELSE negacyclicMulModQ(polyB, polyA, N, RLWE_Q)]
    /\ UNCHANGED <<polyA, polyB, treeVars, shamirVars, rlweVars, cacheVars, encodeVars, identityVars, storeVars, hashVars>>

\* The copy of the decryption module.
CallDecMulModQ(order) ==
    /\ ringRet = NoRet
    /\ ringRet' = [op |-> "decMul", order |-> order,
                   val |-> IF order = "ab"
                           THEN decNegacyclicMulModQ(polyA, polyB, N, RLWE_Q)
                           ELSE decNegacyclicMulModQ(polyB, polyA, N, RLWE_Q)]
    /\ UNCHANGED <<polyA, polyB, treeVars, shamirVars, rlweVars, cacheVars, encodeVars, identityVars, storeVars, hashVars>>

\* Row k of polyA's matrix and its inner product with polyB.
CallMatrixRow(k) ==
    /\ ringRet = NoRet
    /\ ringRet' = [op |-> "row", k |-> k,
                   row |-> negacyclicMatrixRowModQ(polyA, k, N, RLWE_Q),
                   ip |-> innerProductInt(negacyclicMatrixRowModQ(polyA, k, N, RLWE_Q), polyB)]
    /\ UNCHANGED <<polyA, polyB, treeVars, shamirVars, rlweVars, cacheVars, encodeVars, identityVars, storeVars, hashVars>>

RingNext ==
    \/ \E order \in {"ab", "ba"} : CallMulModQ(order)
    \/ \E order \in {"ab", "ba"} : CallDecMulModQ(order)
    \/ \E k \in Idx(N) : CallMatrixRow(k)

InitRing ==
    /\ RingInit /\ TreeInit /\ ShamirIdle /\ RlweIdle /\ CacheIdle /\ EncodeIdle
    /\ IdentityIdle /\ StoreIdle /\ HashIdle

SpecRing == InitRing /\ [][RingNext]_vars

\* C8: the inner product of row k of poly's negacyclic matrix with x,
\* reduced mod Q, is coefficient k of negacyclicMulModQ(poly, x, N, Q).
C8_MatrixRowEquivalence ==
    ringRet.op = "row" =>
        mod(ringRet.ip, RLWE_Q) = negacyclicMulModQ(polyA, polyB, N, RLWE_Q)[ringRet.k]

\* C8 witness: a row below the last one, so that part of it is folded with
\* the sign flipped, met a product coefficient that is not zero.
C8_Witness ==
    /\ ringRet.op = "row"
    /\ ringRet.k < N - 1
    /\ polyA[N - 1] # 0
    /\ polyB[ringRet.k + 1] # 0
    /\ mod(ringRet.ip, RLWE_Q) # 0

\* C9: negacyclicMulModQ(b, a) is negacyclicMulModQ(a, b), coefficient by
\* coefficient, in the encryption module's copy and in the decryption
\* module's.
C9_MulCommutes ==
    /\ (ringRet.op = "mul" /\ ringRet.order = "ba") =>
          \A i \in Idx(N) : ringRet.val[i] = negacyclicMulModQ(polyA, polyB, N, RLWE_Q)[i]
    /\ (ringRet.op = "decMul" /\ ringRet.order = "ba") =>
          \A i \in Idx(N) : ringRet.val[i] = decNegacyclicMulModQ(polyA, polyB, N, RLWE_Q)[i]

\* C9 witness: the operands were multiplied in the exchanged order, both
\* have a zero coefficient that the loops skip, and the product is not zero.
C9_Witness ==
    /\ ringRet.op = "mul"
    /\ ringRet.order = "ba"
    /\ polyA # polyB
    /\ \E i \in Idx(N) : polyA[i] = 0
    /\ \E i \in Idx(N) : polyB[i] = 0
    /\ \E i \in Idx(N) : ringRet.val[i] # 0

-----------------------------------------------------------------------------
(* Reconstruction of the secret ring from two share files                  *)

ShamirInit ==
    /\ secretRing \in SecretRings
    /\ \E slopes \in SlopeRings, threshold \in Thresholds :
          shareFiles = DealShares(secretRing, slopes, threshold)
    /\ skRet = NoRet

\* reconstructSk(share file of holder h1, share file of holder h2)
ReconstructSk(h1, h2) ==
    /\ skRet' = [op |-> "reconstructSk", h1 |-> h1, h2 |-> h2,
                 ret |-> reconstructSk(shareFiles[h1], shareFiles[h2])]
    /\ UNCHANGED <<shareFiles, secretRing, treeVars, ringVars, rlweVars, cacheVars, encodeVars, identityVars, storeVars, hashVars>>

ShamirNext == \E h1, h2 \in 1 .. NumShares : ReconstructSk(h1, h2)

InitShamir ==
    /\ ShamirInit /\ TreeInit /\ RingIdle /\ RlweIdle /\ CacheIdle /\ EncodeIdle
    /\ IdentityIdle /\ StoreIdle /\ HashIdle

SpecShamir == InitShamir /\ [][ShamirNext]_vars

\* The two files are dealt with threshold 2 and differ in x at every position.
ValidPair(f1, f2) ==
    /\ f1.threshold = 2
    /\ \A k \in Idx(N) : f1.coefficients[k].x # f2.coefficients[k].x

\* C3: in the 2-of-n sharing, reconstructSk on two shares with distinct x
\* returns a ring, and it is the ring every other choice of two such
\* shares, in either order, gives.
C3_ThresholdInvariance ==
    (skRet.op = "reconstructSk" /\ ValidPair(shareFiles[skRet.h1], shareFiles[skRet.h2])) =>
        /\ skRet.ret.ok
        /\ \A g1, g2 \in 1 .. NumShares :
              ValidPair(shareFiles[g1], shareFiles[g2]) =>
                  reconstructSk(shareFiles[g1], shareFiles[g2]) = skRet.ret

\* C3 witness: the last two holders' shares, in descending order, gave back
\* a secret ring with a negative coefficient under nonzero slopes.
C3_Witness ==
    /\ skRet.op = "reconstructSk"
    /\ skRet.h1 = NumShares
    /\ skRet.h2 = NumShares - 1
    /\ ValidPair(shareFiles[skRet.h1], shareFiles[skRet.h2])
    /\ skRet.ret.ok
    /\ \E k \in Idx(N) : secretRing[k] < 0 /\ skRet.ret.val[k] = RLWE_Q - 1
    /\ shareFiles[1].coefficients[0].y # shareFiles[2].coefficients[0].y
    /\ Len(shareFiles[1].coefficients[0].y.digits) > 1

\* The two files carry the same x-coordinate at some ring position.
DuplicateX(f1, f2) ==
    \E k \in Idx(N) : f1.coefficients[k].x = f2.coefficients[k].x

\* C11 (as claimed): reconstructSk on two shares of the 2-of-n sharing with
\* the same x-coordinate at some ring position fails and returns no secret
\* ring.
C11_DuplicateXRejected ==
    (/\ skRet.op = "reconstructSk"
     /\ shareFiles[skRet.h1].threshold = 2
     /\ DuplicateX(shareFiles[skRet.h1], shareFiles[skRet.h2])) =>
        ~skRet.ret.ok

\* C12 (as claimed): reconstructSk fails when the first file's threshold is
\* above the two shares supplied, and a file declaring threshold 1 or 0
\* never yields a ring, which would be computed from fewer than the two
\* supplied shares.
C12_InsufficientRejected ==
    skRet.op = "reconstructSk" =>
        /\ shareFiles[skRet.h1].threshold > 2 => ~skRet.ret.ok
        /\ shareFiles[skRet.h1].threshold < 2 => ~skRet.ret.ok

-----------------------------------------------------------------------------
(* Encryption, quotient witnesses and decryption under one key             *)

RlweInit == keyPair \in KeyPairs /\ ct = NoRet /\ rlweRet = NoRet

\* What loadRlwePk hands to its caller: the a and b of the artifact, each
\* numeral through BigInt.
LoadedPk ==
    [a |-> [i \in DOMAIN keyPair.a |-> BigInt(keyPair.a[i])],
     b |-> [i \in DOMAIN keyPair.b |-> BigInt(keyPair.b[i])]]

\* One rlweEncrypt call; the noise is smallNoise of the bytes drawn.
RlweEncrypt(ownerX, ownerY, rBytes, e1Bytes, e2Bytes) ==
    /\ ct = NoRet
    /\ ct' = [op |-> "rlweEncrypt", ownerX |-> ownerX, ownerY |-> ownerY,
              res |-> rlweEncrypt(LoadedPk, ownerX, ownerY,
                                  [i \in Idx(N) |-> smallNoise(rBytes[i])],
                                  [i \in Idx(MSG_SLOTS) |-> smallNoise(e1Bytes[i])],
                                  [i \in Idx(N) |-> smallNoise(e2Bytes[i])])]
    /\ UNCHANGED <<keyPair, rlweRet, treeVars, ringVars, shamirVars, cacheVars, encodeVars, identityVars, storeVars, hashVars>>

\* The ciphertext a caller passes on: as returned, or with one coefficient
\* of c0 or of c1 off by one.
PassedC0(tamper) ==
    IF tamper = "c0" THEN [ct.res.c0Sparse EXCEPT ![0] = @ + 1] ELSE ct.res.c0Sparse

PassedC1(tamper) ==
    IF tamper = "c1" THEN [ct.res.c1 EXCEPT ![N - 1] = @ + 1] ELSE ct.res.c1

\* One computeQuotients call; nothing in it throws.
ComputeQuotients(tamper) ==
    /\ ct # NoRet
    /\ rlweRet = NoRet
    /\ rlweRet' = [op |-> "computeQuotients", c0Sparse |-> PassedC0(tamper),
                   c1 |-> PassedC1(tamper), tampered |-> tamper # "none",
                   ret |-> Return(computeQuotients(LoadedPk, PassedC0(tamper),
                                     PassedC1(tamper), ct.res.rSigned, ct.res.e1Signed,
                                     ct.res.e2Signed, ct.res.msg))]
    /\ UNCHANGED <<keyPair, ct, treeVars, ringVars, shamirVars, cacheVars, encodeVars, identityVars, storeVars, hashVars>>

\* One rlweDecrypt call on the ciphertext, with the key's secret ring.
RlweDecrypt ==
    /\ ct # NoRet
    /\ rlweRet = NoRet
    /\ rlweRet' = [op |-> "rlweDecrypt",
                   ret |-> rlweDecrypt(ct.res.c0Sparse, ct.res.c1, keyPair.sk)]
    /\ UNCHANGED <<keyPair, ct, treeVars, ringVars, shamirVars, cacheVars, encodeVars, identityVars, storeVars, hashVars>>

RlweNext ==
    \/ \E ownerX \in OwnerXs, ownerY \in OwnerYs,
          rBytes \in ExtremeBytes(N) \cup PatternBytes(N),
          e1Bytes \in PatternBytes(MSG_SLOTS), e2Bytes \in PatternBytes(N) :
            RlweEncrypt(ownerX, ownerY, rBytes, e1Bytes, e2Bytes)
    \/ \E tamper \in {"none", "c0", "c1"} : ComputeQuotients(tamper)
    \/ RlweDecrypt

InitRlwe ==
    /\ RlweInit /\ TreeInit /\ RingIdle /\ ShamirIdle /\ CacheIdle /\ EncodeIdle
    /\ IdentityIdle /\ StoreIdle /\ HashIdle

SpecRlwe == InitRlwe /\ [][RlweNext]_vars

\* C1: rlweDecrypt, on the c0 and c1 rlweEncrypt produced for owner_x and
\* owner_y and on the secret ring of the key, returns owner_x and owner_y.
C1_RoundTrip ==
    rlweRet.op = "rlweDecrypt" =>
        /\ rlweRet.ret.ownerX = ct.ownerX
        /\ rlweRet.ret.ownerY = ct.ownerY

\* C1 witness: a decryption of owners with different slots, under noise at
\* the bound in every position of r.
C1_Witness ==
    /\ rlweRet.op = "rlweDecrypt"
    /\ ct.ownerX = 6
    /\ ct.ownerY = 9
    /\ \A i \in Idx(N) : ct.res.rSigned[i] \in {-3, 3}
    /\ \E i \in Idx(N) : ct.res.rSigned[i] = 3
    /\ \E i \in Idx(N) : ct.res.rSigned[i] = -3
    /\ ct.res.e1Signed[0] = -3

\* C2: on the values rlweEncrypt returned, every witness of computeQuotients
\* times Q is the integer full value minus the ciphertext coefficient.
C2_QuotientExact ==
    (rlweRet.op = "computeQuotients" /\ ~rlweRet.tampered) =>
        /\ rlweRet.ret.ok
        /\ \A i \in Idx(MSG_SLOTS) :
              rlweRet.ret.val.k0[i] * RLWE_Q =
                  fullVal0(LoadedPk, ct.res.rSigned, ct.res.e1Signed, ct.res.msg, i)
                      - ct.res.c0Sparse[i]
        /\ \A i \in Idx(N) :
              rlweRet.ret.val.k1[i] * RLWE_Q =
                  fullVal1(LoadedPk, ct.res.rSigned, ct.res.e2Signed, i) - ct.res.c1[i]

\* C2 witness: witnesses computed for a ciphertext with signed noise, one of
\* them negative and one positive.
C2_Witness ==
    /\ rlweRet.op = "computeQuotients"
    /\ ~rlweRet.tampered
    /\ \E i \in Idx(N) : ct.res.rSigned[i] < 0
    /\ \E i \in Idx(N) : rlweRet.ret.val.k1[i] < 0
    /\ \E i \in Idx(MSG_SLOTS) : rlweRet.ret.val.k0[i] > 0

\* Some division of computeQuotients on the passed values leaves a remainder.
InexactQuotient ==
    \/ \E i \in Idx(MSG_SLOTS) :
          JsRem(fullVal0(LoadedPk, ct.res.rSigned, ct.res.e1Signed, ct.res.msg, i)
                    - rlweRet.c0Sparse[i], RLWE_Q) # 0
    \/ \E i \in Idx(N) :
          JsRem(fullVal1(LoadedPk, ct.res.rSigned, ct.res.e2Signed, i)
                    - rlweRet.c1[i], RLWE_Q) # 0

\* C10 (as claimed): a computeQuotients call in which some division leaves
\* a remainder fails and returns no witnesses.
C10_RemainderIsFatal ==
    (rlweRet.op = "computeQuotients" /\ InexactQuotient) => ~rlweRet.ret.ok

-----------------------------------------------------------------------------
(* The public-key cache under concurrent loadRlwePk calls                  *)

CacheInit ==
    /\ cachedPk = Null
    /\ artifact \in Artifacts
    /\ calls = [c \in 1 .. NumCalls |-> IdleCall]
    /\ fetches = 0
    /\ assigns = 0
    /\ published = FALSE

\* The noise of the rlweEncrypt calls made here.
CacheNoise(n) == [i \in Idx(n) |-> smallNoise(255 - i)]

\* The call once loadRlwePk has settled with ret: loadRlwePk's own caller is
\* done; rlweEncrypt goes on with the key, or fails with loadRlwePk's error.
Settled(call, ret) ==
    [call EXCEPT
        !.pc = IF ret.ok THEN "done" ELSE "failed",
        !.pk = ret,
        !.out = IF call.caller # "rlweEncrypt" THEN NoRet
                ELSE IF ~ret.ok THEN ret
                ELSE rlweEncryptLoaded(ret.val, 6, 9, CacheNoise(N),
                                       CacheNoise(MSG_SLOTS), CacheNoise(N))]

\* Lines 24-25: a call returns the cache if it is set, and otherwise issues
\* the retrieval and suspends.  Calls are numbered in the order they start.
Call(c, caller) ==
    /\ calls[c].pc = "idle"
    /\ c > 1 => calls[c - 1].pc # "idle"
    /\ IF cachedPk # Null
       THEN /\ calls' = [calls EXCEPT ![c] =
                            Settled([@ EXCEPT !.caller = caller], Return(cachedPk))]
            /\ fetches' = fetches
       ELSE /\ calls' = [calls EXCEPT ![c] = [@ EXCEPT !.pc = "fetch", !.caller = caller]]
            /\ fetches' = fetches + 1
    /\ UNCHANGED <<cachedPk, artifact, assigns, published,
                   treeVars, ringVars, shamirVars, rlweVars, encodeVars, identityVars, storeVars, hashVars>>

\* Line 25 resumes: the retrieval gave the response the store serves now, or
\* it failed (fetch rejects with a TypeError).
FetchSettles(c, reached) ==
    /\ calls[c].pc = "fetch"
    /\ calls' = [calls EXCEPT ![c] =
                    IF reached THEN [@ EXCEPT !.pc = "json", !.res = artifact]
                    ELSE Settled(@, Throw("TypeError"))]
    /\ UNCHANGED <<cachedPk, artifact, fetches, assigns, published,
                   treeVars, ringVars, shamirVars, rlweVars, encodeVars, identityVars, storeVars, hashVars>>

\* Line 26 resumes: res.json() rejects on a body that is no JSON, and
\* otherwise lines 27-31 run to the return.
JsonSettles(c) ==
    /\ calls[c].pc = "json"
    /\ IF ~calls[c].res.json
       THEN /\ calls' = [calls EXCEPT ![c] = Settled(@, Throw("SyntaxError"))]
            /\ UNCHANGED <<cachedPk, assigns>>
       ELSE LET r == loadRlwePkResume(cachedPk, calls[c].res)
            IN  /\ cachedPk' = r.cachedPk
                /\ assigns' = IF r.ret.ok THEN assigns + 1 ELSE assigns
                /\ calls' = [calls EXCEPT ![c] = Settled(@, r.ret)]
    /\ UNCHANGED <<artifact, fetches, published,
                   treeVars, ringVars, shamirVars, rlweVars, encodeVars, identityVars, storeVars, hashVars>>

\* The store replaces the artifact it serves, once.
Publish(art) ==
    /\ ~published
    /\ art # artifact
    /\ artifact' = art
    /\ published' = TRUE
    /\ UNCHANGED <<cachedPk, calls, fetches, assigns,
                   treeVars, ringVars, shamirVars, rlweVars, encodeVars, identityVars, storeVars, hashVars>>

CacheNext ==
    \/ \E c \in 1 .. NumCalls, caller \in {"loadRlwePk", "rlweEncrypt"} : Call(c, caller)
    \/ \E c \in 1 .. NumCalls, reached \in BOOLEAN : FetchSettles(c, reached)
    \/ \E c \in 1 .. NumCalls : JsonSettles(c)
    \/ \E art \in Republished : Publish(art)

InitCache ==
    /\ CacheInit /\ TreeInit /\ RingIdle /\ ShamirIdle /\ RlweIdle /\ EncodeIdle
    /\ IdentityIdle /\ StoreIdle /\ HashIdle

SpecCache == InitCache /\ [][CacheNext]_vars

\* C13 (as claimed): the cache variable is assigned at most once, by the
\* one retrieval that is decoded into it.
C13_LoadedOnce == assigns <= 1

\* The calls whose loadRlwePk has returned a key.
Completed == {c \in 1 .. NumCalls : calls[c].pc = "done"}

\* C14: as long as the store has served one artifact throughout, the keys
\* returned by all completed loadRlwePk calls have equal a and equal b,
\* and the cache holds that a and b once a call has completed.
C14_LoadsConverge ==
    ~published =>
        \A c \in Completed :
            /\ \A d \in Completed :
                  /\ calls[c].pk.val.a = calls[d].pk.val.a
                  /\ calls[c].pk.val.b = calls[d].pk.val.b
            /\ cachedPk # Null
            /\ cachedPk.a = calls[c].pk.val.a
            /\ cachedPk.b = calls[c].pk.val.b

\* C14 witness: two calls retrieved concurrently and both assigned the
\* cache, a third call was answered from the cache, and the store never
\* changed.
C14_Witness ==
    /\ ~published
    /\ Completed = 1 .. NumCalls
    /\ fetches = 2
    /\ assigns = 2
    /\ calls[NumCalls].res = NoRet
    /\ calls[1].pk.val.a # calls[1].pk.val.b

\* The response held a JSON artifact whose a or b has not N coefficients.
Malformed(res) ==
    /\ res # NoRet
    /\ res.json
    /\ length(res.a) # N \/ length(res.b) # N

\* C15 (as claimed): a call that retrieved an artifact whose a or b has not
\* exactly N coefficients fails and gives its caller no ciphertext, and the
\* cache never holds a key with other than N coefficients in a or in b.
C15_MalformedRejected ==
    /\ \A c \in 1 .. NumCalls :
          (calls[c].pc \in {"done", "failed"} /\ Malformed(calls[c].res)) =>
              /\ ~calls[c].pk.ok
              /\ calls[c].caller = "rlweEncrypt" => ~calls[c].out.ok
    /\ cachedPk # Null => length(cachedPk.a) = N /\ length(cachedPk.b) = N

\* C16: a step in which a loadRlwePk call fails leaves the cache as it was;
\* the cache is unset or holds both a and b; and a call that starts while
\* the cache is unset issues a retrieval.
C16_FailureAtomic ==
    [][ /\ (\E c \in 1 .. NumCalls : calls[c].pc # "failed" /\ calls'[c].pc = "failed") =>
              cachedPk' = cachedPk
        /\ cachedPk' = Null \/ DOMAIN cachedPk' = {"a", "b"}
        /\ \A c \in 1 .. NumCalls :
              (calls[c].pc = "idle" /\ calls'[c].pc # "idle" /\ cachedPk = Null) =>
                  /\ calls'[c].pc = "fetch"
                  /\ fetches' = fetches + 1 ]_vars

\* C16 witness: the first call failed decoding a numeral after a had
\* decoded, a second call failed on the retrieval, and the third call
\* retrieved again and returned a key that the cache now holds.
C16_Witness ==
    /\ calls[1].pc = "failed"
    /\ calls[1].res = BadB
    /\ calls[1].pk = Throw("SyntaxError")
    /\ calls[2].pc = "failed"
    /\ calls[2].pk = Throw("TypeError")
    /\ calls[3].pc = "done"
    /\ calls[3].res # NoRet
    /\ fetches = 3
    /\ assigns = 1
    /\ cachedPk = calls[3].pk.val

-----------------------------------------------------------------------------
(* The encoding of owner coordinates into message slots                    *)

EncodeInit == encArgs \in [value : EncodeValues, other : OtherOwners] /\ encRet = NoRet

\* encodeFieldToBytes(value, 32): the loop pushes the slots and returns
\* them; no statement of it throws.
CallEncodeFieldToBytes ==
    /\ encRet' = [op |-> "encodeFieldToBytes",
                  ret |-> Return(encodeFieldToBytes(encArgs.value, FIELD_SLOTS))]
    /\ UNCHANGED <<encArgs, treeVars, ringVars, shamirVars, rlweVars, cacheVars, identityVars, storeVars, hashVars>>

\* Lines 163-168 of rlweEncrypt, the value being owner_x or owner_y.
CallEncodeMessage(asX) ==
    /\ encRet' = [op |-> "rlweEncrypt", asX |-> asX,
                  ret |-> Return(IF asX THEN encodeMessage(encArgs.value, encArgs.other)
                                 ELSE encodeMessage(encArgs.other, encArgs.value))]
    /\ UNCHANGED <<encArgs, treeVars, ringVars, shamirVars, rlweVars, cacheVars, identityVars, storeVars, hashVars>>

EncodeNext ==
    \/ CallEncodeFieldToBytes
    \/ \E asX \in BOOLEAN : CallEncodeMessage(asX)

InitEncode ==
    /\ EncodeInit /\ TreeInit /\ RingIdle /\ ShamirIdle /\ RlweIdle /\ CacheIdle
    /\ IdentityIdle /\ StoreIdle /\ HashIdle

SpecEncode == InitEncode /\ [][EncodeNext]_vars

\* C17 (as claimed): an encoding of a value that is negative or does not
\* fit the field's width fails and returns no slots.
C17_OversizedRejected ==
    (encRet # NoRet /\ (encArgs.value < 0 \/ encArgs.value >= Pow2(FieldBits))) =>
        ~encRet.ret.ok

-----------------------------------------------------------------------------
(* Identity keypair generation                                             *)

IdentityInit == idSeed \in Seeds /\ idRet = NoRet

GenerateIdentityKeypair(rejects) ==
    /\ idRet' = [op |-> "generateIdentityKeypair",
                 ret |-> generateIdentityKeypair(idSeed, rejects)]
    /\ UNCHANGED <<idSeed, treeVars, ringVars, shamirVars, rlweVars, cacheVars, encodeVars, storeVars, hashVars>>

IdentityNext == \E rejects \in BOOLEAN : GenerateIdentityKeypair(rejects)

InitIdentity ==
    /\ IdentityInit /\ TreeInit /\ RingIdle /\ ShamirIdle /\ RlweIdle
    /\ CacheIdle /\ EncodeIdle /\ StoreIdle /\ HashIdle

SpecIdentity == InitIdentity /\ [][IdentityNext]_vars

\* C18 (as claimed): generateIdentityKeypair returns, for every seed, a
\* secretKey that is the seed's residue modulo 2^SK_BITS, in
\* [0, 2^SK_BITS), and a publicKey that is secretKey times the generator.
C18_SeedReduced ==
    idRet # NoRet =>
        /\ idRet.ret.ok
        /\ idRet.ret.val.secretKey = idSeed % Pow2(SK_BITS)
        /\ idRet.ret.val.secretKey >= 0
        /\ idRet.ret.val.secretKey < Pow2(SK_BITS)
        /\ idRet.ret.val.publicKey.x = AffineX(Point(idRet.ret.val.secretKey))
        /\ idRet.ret.val.publicKey.y = AffineY(Point(idRet.ret.val.secretKey))

-----------------------------------------------------------------------------
(* The ring operations on inputs that are not reduced                      *)

NormInit == polyA \in UnreducedAs /\ polyB \in UnreducedBs /\ ringRet = NoRet

\* Row k of the matrix of one of the two ring elements.
NormMatrixRow(ofA, k) ==
    /\ ringRet = NoRet
    /\ ringRet' = [op |-> "row", k |-> k,
                   row |-> negacyclicMatrixRowModQ(IF ofA THEN polyA ELSE polyB, k, N, RLWE_Q)]
    /\ UNCHANGED <<polyA, polyB, treeVars, shamirVars, rlweVars, cacheVars, encodeVars,
                   identityVars, storeVars, hashVars>>

\* rlweEncrypt under the key (polyA, polyB) as loaded, with sampled noise.
NormEncrypt(ownerX, ownerY, rBytes, e1Bytes, e2Bytes) ==
    /\ ringRet = NoRet
    /\ ringRet' = [op |-> "rlweEncrypt",
                   res |-> rlweEncrypt([a |-> polyA, b |-> polyB], ownerX, ownerY,
                                       [i \in Idx(N) |-> smallNoise(rBytes[i])],
                                       [i \in Idx(MSG_SLOTS) |-> smallNoise(e1Bytes[i])],
                                       [i \in Idx(N) |-> smallNoise(e2Bytes[i])])]
    /\ UNCHANGED <<polyA, polyB, treeVars, shamirVars, rlweVars, cacheVars, encodeVars,
                   identityVars, storeVars, hashVars>>

\* reconstructSk on two share files whose values are the coefficients of
\* polyA and of polyB, in either order.
NormReconstructSk(threshold, swapped) ==
    /\ ringRet = NoRet
    /\ ringRet' = [op |-> "reconstructSk", threshold |-> threshold,
                   ret |-> IF swapped
                           THEN reconstructSk(ShareOf(polyB, 2, threshold),
                                              ShareOf(polyA, 1, threshold))
                           ELSE reconstructSk(ShareOf(polyA, 1, threshold),
                                              ShareOf(polyB, 2, threshold))]
    /\ UNCHANGED <<polyA, polyB, treeVars, shamirVars, rlweVars, cacheVars, encodeVars,
                   identityVars, storeVars, hashVars>>

NormNext ==
    \/ \E order \in {"ab", "ba"} : CallMulModQ(order)
    \/ \E order \in {"ab", "ba"} : CallDecMulModQ(order)
    \/ \E ofA \in BOOLEAN, k \in Idx(N) : NormMatrixRow(ofA, k)
    \/ \E ownerX \in {0, Pow2(FieldBits) - 1}, ownerY \in {9},
          rBytes \in PatternBytes(N), e1Bytes \in PatternBytes(MSG_SLOTS),
          e2Bytes \in PatternBytes(N) :
            NormEncrypt(ownerX, ownerY, rBytes, e1Bytes, e2Bytes)
    \/ \E threshold \in Thresholds, swapped \in BOOLEAN : NormReconstructSk(threshold, swapped)

InitNorm ==
    /\ NormInit /\ TreeInit /\ ShamirIdle /\ RlweIdle /\ CacheIdle /\ EncodeIdle
    /\ IdentityIdle /\ StoreIdle /\ HashIdle

SpecNorm == InitNorm /\ [][NormNext]_vars

\* Every coefficient of the ring lies in [0, Q).
Normalized(ring) == \A i \in DOMAIN ring : ring[i] >= 0 /\ ring[i] < RLWE_Q

\* C19: on inputs that are not reduced, every coefficient returned by
\* negacyclicMulModQ (either copy) and by negacyclicMatrixRowModQ, every
\* coefficient of c0 and c1 returned by rlweEncrypt, and every coefficient
\* of a ring returned by reconstructSk lies in [0, Q).
C19_CoefficientsNormalized ==
    /\ ringRet.op \in {"mul", "decMul"} => Normalized(ringRet.val)
    /\ ringRet.op = "row" => Normalized(ringRet.row)
    /\ ringRet.op = "rlweEncrypt" =>
          Normalized(ringRet.res.c0Sparse) /\ Normalized(ringRet.res.c1)
    /\ (ringRet.op = "reconstructSk" /\ ringRet.ret.ok) => Normalized(ringRet.ret.val)

\* C19 witness: rlweEncrypt returned a ciphertext under a key with negative
\* coefficients and coefficients above Q, with negative noise and a zero
\* slot, where only the added Q keeps c0 from being negative.
C19_Witness ==
    /\ ringRet.op = "rlweEncrypt"
    /\ \E i \in Idx(N) : polyA[i] < 0
    /\ \E i \in Idx(N) : polyB[i] > RLWE_Q
    /\ ringRet.res.msg[0] = 0
    /\ ringRet.res.e1Signed[0] < 0
    /\ ringRet.res.c0Sparse[0] = RLWE_Q + ringRet.res.e1Signed[0]

-----------------------------------------------------------------------------
(* The deposits store under interleaved calls                              *)

\* saveDeposit(record): one put.
SaveDeposit(id) ==
    /\ deposits' = put(deposits, DepositRecord(id))
    /\ removed' = [removed EXCEPT ![id] = FALSE]
    /\ UNCHANGED <<merkleTree, updates, clearPc, treeVars, ringVars, shamirVars, rlweVars,
                   cacheVars, encodeVars, identityVars, hashVars>>

\* The puts of importDeposits, all in one readwrite transaction.
RECURSIVE putAll(_, _)
putAll(store, ids) ==
    IF ids = {} THEN store
    ELSE LET id == CHOOSE k \in ids : TRUE
         IN  putAll(put(store, DepositRecord(id)), ids \ {id})

ImportDeposits(ids) ==
    /\ deposits' = putAll(deposits, ids)
    /\ removed' = [id \in DepositIds |-> IF id \in ids THEN FALSE ELSE removed[id]]
    /\ UNCHANGED <<merkleTree, updates, clearPc, treeVars, ringVars, shamirVars, rlweVars,
                   cacheVars, encodeVars, identityVars, hashVars>>

\* deleteDeposit(id): one delete.
DeleteDeposit(id) ==
    /\ deposits' = delete(deposits, id)
    /\ removed' = [removed EXCEPT ![id] = TRUE]
    /\ UNCHANGED <<merkleTree, updates, clearPc, treeVars, ringVars, shamirVars, rlweVars,
                   cacheVars, encodeVars, identityVars, hashVars>>

\* clearAllData, line 229: the deposits store is cleared.
ClearDeposits ==
    /\ clearPc = "idle"
    /\ clearPc' = "clearedDeposits"
    /\ deposits' = EmptyArray
    /\ removed' = [id \in DepositIds |-> TRUE]
    /\ UNCHANGED <<merkleTree, updates, treeVars, ringVars, shamirVars, rlweVars,
                   cacheVars, encodeVars, identityVars, hashVars>>

\* clearAllData, line 230: the merkleTree store is cleared and the call ends.
ClearMerkleTree ==
    /\ clearPc = "clearedDeposits"
    /\ clearPc' = "idle"
    /\ merkleTree' = FALSE
    /\ UNCHANGED <<deposits, updates, removed, treeVars, ringVars, shamirVars, rlweVars,
                   cacheVars, encodeVars, identityVars, hashVars>>

\* saveMerkleTreeState: the state record is put under its fixed key.
SaveMerkleTreeState ==
    /\ merkleTree' = TRUE
    /\ UNCHANGED <<deposits, updates, clearPc, removed, treeVars, ringVars, shamirVars,
                   rlweVars, cacheVars, encodeVars, identityVars, hashVars>>

\* updateDepositStatus, line 168: the record is read in a transaction of its
\* own; with no record the call ends here.
UpdateGet(u, id, status, sig) ==
    /\ updates[u].pc = "idle"
    /\ updates' = [updates EXCEPT ![u] =
                      IF get(deposits, id) = Undefined THEN IdleUpdate
                      ELSE [pc |-> "got", id |-> id, status |-> status, sig |-> sig,
                            deposit |-> get(deposits, id)]]
    /\ UNCHANGED <<deposits, merkleTree, clearPc, removed, treeVars, ringVars, shamirVars,
                   rlweVars, cacheVars, encodeVars, identityVars, hashVars>>

\* updateDepositStatus, lines 170-174: the record read is changed and put
\* back in a second transaction.
UpdatePut(u) ==
    /\ updates[u].pc = "got"
    /\ deposits' = put(deposits, updated(updates[u].deposit, updates[u].status,
                                         updates[u].sig))
    /\ updates' = [updates EXCEPT ![u] = IdleUpdate]
    /\ UNCHANGED <<merkleTree, clearPc, removed, treeVars, ringVars, shamirVars, rlweVars,
                   cacheVars, encodeVars, identityVars, hashVars>>

StoreNext ==
    \/ \E id \in DepositIds : SaveDeposit(id)
    \/ \E ids \in SUBSET DepositIds : ImportDeposits(ids)
    \/ \E id \in DepositIds : DeleteDeposit(id)
    \/ ClearDeposits
    \/ ClearMerkleTree
    \/ SaveMerkleTreeState
    \/ \E u \in 1 .. NumUpdates, id \in DepositIds, status \in {"pending", "withdrawn"},
          sig \in Signatures : UpdateGet(u, id, status, sig)
    \/ \E u \in 1 .. NumUpdates : UpdatePut(u)

InitStore ==
    /\ StoreIdle /\ HashIdle /\ TreeInit /\ RingIdle /\ ShamirIdle /\ RlweIdle /\ CacheIdle
    /\ EncodeIdle /\ IdentityIdle

SpecStore == InitStore /\ [][StoreNext]_vars

\* C20 (as claimed): an id that a deleteDeposit or a clearAllData removed,
\* with no saveDeposit or importDeposits of it since, has no record in the
\* deposits store.
C20_UpdateNeverCreates ==
    \A id \in DepositIds : removed[id] => id \notin DOMAIN deposits

-----------------------------------------------------------------------------
(* The hash instance under initPoseidon calls and the calls that need it   *)

\* Before any initPoseidon call: no instance, and no tree constructed yet
\* (leaves holds the leaves of the tree once there is one).
HashInit == TreeInit /\ HashIdle

\* Some initPoseidon call has completed.
Initialized == \E c \in 1 .. NumCalls : inits[c].pc = "done"

\* initPoseidon() up to its await, or to its end when the test fails.  The
\* calls are numbered in the order they are made.
InitPoseidon(c) ==
    /\ inits[c].pc = "idle"
    /\ \A d \in 1 .. (c - 1) : inits[d].pc # "idle"
    /\ inits' = [inits EXCEPT ![c] =
                    [pc |-> IF initPoseidonBuilds(poseidonInstance) THEN "awaiting"
                                                                     ELSE "done",
                     late |-> Initialized]]
    /\ UNCHANGED <<poseidonInstance, hashRet, tree, treeVars, ringVars, shamirVars, rlweVars,
                   cacheVars, encodeVars, identityVars, storeVars>>

\* buildPoseidon() settles and the call resumes: the assignment, or the
\* rejection passed on to the caller.
BuildSettles(c, resolved) ==
    /\ inits[c].pc = "awaiting"
    /\ IF resolved
       THEN /\ poseidonInstance' = Instance(c)
            /\ inits' = [inits EXCEPT ![c].pc = "done"]
       ELSE /\ poseidonInstance' = poseidonInstance
            /\ inits' = [inits EXCEPT ![c].pc = "failed"]
    /\ UNCHANGED <<hashRet, tree, treeVars, ringVars, shamirVars, rlweVars,
                   cacheVars, encodeVars, identityVars, storeVars>>

\* The functions that hash their arguments, each on one argument list.
HashFunctions == {"poseidonHash2", "poseidonHash3", "poseidonHash4",
                  "calculateWaCommitment", "calculateCommitment", "calculateNullifier"}
OwnerKey == [x |-> Fe(1), y |-> Fe(2)]
Applied(fn) ==
    CASE fn = "poseidonHash2" -> poseidonHash2(Fe(1), Fe(2))
      [] fn = "poseidonHash3" -> poseidonHash3(Fe(1), Fe(2), Fe(3))
      [] fn = "poseidonHash4" -> poseidonHash4(Fe(1), Fe(2), Fe(3), Fe(4))
      [] fn = "calculateWaCommitment" -> calculateWaCommitment(OwnerKey)
      [] fn = "calculateCommitment" -> calculateCommitment(OwnerKey, Fe(3), Fe(4))
      [] fn = "calculateNullifier" -> calculateNullifier(Fe(5), Fe(0))

\* The sequence bit of a return, which tells one call from the next.
Turn(ret) == IF "seq" \in DOMAIN ret THEN 1 - ret.seq ELSE 0

CallHashFunction(fn) ==
    /\ hashRet' = [op |-> fn, seq |-> Turn(hashRet),
                   ret |-> withPoseidon(poseidonInstance, Applied(fn))]
    /\ UNCHANGED <<poseidonInstance, inits, tree, treeVars, ringVars, shamirVars, rlweVars,
                   cacheVars, encodeVars, identityVars, storeVars>>

\* new ShieldedPoolMerkleTree(): on a throw the caller has no new tree.
Construct ==
    /\ hashRet' = [op |-> "constructor", seq |-> Turn(hashRet),
                   ret |-> construct(poseidonInstance)]
    /\ leaves' = IF construct(poseidonInstance).ok THEN construct(poseidonInstance).val
                                                    ELSE leaves
    /\ tree' = (tree \/ construct(poseidonInstance).ok)
    /\ UNCHANGED <<poseidonInstance, inits, treeRet, ringVars, shamirVars, rlweVars,
                   cacheVars, encodeVars, identityVars, storeVars>>

\* insert on the constructed tree; it does not hash.
InsertLeaf(commitment) ==
    /\ tree
    /\ length(leaves) < Pow2(TREE_DEPTH) + ExtraInserts
    /\ leaves' = insert(leaves, commitment).leaves
    /\ UNCHANGED <<treeRet, hashVars, ringVars, shamirVars, rlweVars,
                   cacheVars, encodeVars, identityVars, storeVars>>

\* getRoot, getRootOptimized and getProof on the constructed tree: each
\* reaches poseidonHash2 first of all when TREE_DEPTH >= 1.
AskTree(op, index) ==
    /\ tree
    /\ op = "getProof" => index \in DOMAIN leaves
    /\ op # "getProof" => index = 0
    /\ hashRet' = [op |-> op, seq |-> Turn(hashRet),
                   ret |-> withPoseidon(poseidonInstance,
                              CASE op = "getRoot" -> getRoot(leaves)
                                [] op = "getRootOptimized" -> getRootOptimized(leaves)
                                [] op = "getProof" -> getProof(leaves, index))]
    /\ UNCHANGED <<poseidonInstance, inits, tree, treeVars, ringVars, shamirVars,
                   rlweVars, cacheVars, encodeVars, identityVars, storeVars>>

HashNext ==
    \/ \E c \in 1 .. NumCalls : InitPoseidon(c)
    \/ \E c \in 1 .. NumCalls, resolved \in BOOLEAN : BuildSettles(c, resolved)
    \/ \E fn \in HashFunctions : CallHashFunction(fn)
    \/ Construct
    \/ InsertLeaf(1)
    \/ \E op \in {"getRoot", "getRootOptimized", "getProof"},
          index \in Idx(Pow2(TREE_DEPTH) + ExtraInserts) : AskTree(op, index)

InitHash ==
    /\ HashInit /\ RingIdle /\ ShamirIdle /\ RlweIdle /\ CacheIdle /\ EncodeIdle
    /\ IdentityIdle /\ StoreIdle

SpecHash == InitHash /\ [][HashNext]_vars

\* C21: a call of a hashing function, of the constructor or of a tree query
\* made before any initPoseidon call has completed fails with "Poseidon not
\* initialized" and leaves the instance, the init calls and the tree as they
\* were; once an initPoseidon call has completed no such call fails with
\* that error, the instance never goes back to null, and an initPoseidon
\* call made after one has completed leaves the instance as it is.
C21_InitGating ==
    [][/\ (hashRet' # hashRet /\ ~Initialized) =>
              /\ hashRet'.ret = NotInitialized
              /\ UNCHANGED <<poseidonInstance, inits, tree, leaves>>
       /\ (hashRet' # hashRet /\ Initialized) => hashRet'.ret # NotInitialized
       /\ poseidonInstance # Null => poseidonInstance' # Null
       /\ \A c \in 1 .. NumCalls :
              (inits'[c].late /\ inits'[c] # inits[c]) =>
                  poseidonInstance' = poseidonInstance]_vars

\* C21 witness: the constructor has been refused while one initPoseidon call
\* was awaiting buildPoseidon and another had been rejected, so that no call
\* had completed and no tree exists.
C21_Witness ==
    /\ hashRet.op = "constructor" /\ hashRet.ret = NotInitialized
    /\ \E c, d \in 1 .. NumCalls : inits[c].pc = "awaiting" /\ inits[d].pc = "failed"
    /\ ~Initialized /\ ~tree
====
